---- MODULE Spec2Model ----
(***************************************************************************)
(* httpgd: a graphics device that records draw commands into a page        *)
(* history and serves the history over HTTP.                               *)
(*                                                                         *)
(* Modelled from src/src/Httpgd.cpp: the device callbacks (httpgd_new_page,*)
(* httpgd_line, httpgd_text, httpgd_clip, httpgd_close), the device start  *)
(* (httpgd_, makehttpgdDevice) and the embedding-facing calls              *)
(* (httpgd_state_, httpgd_svg_, httpgd_remove_, httpgd_clear_).            *)
(* HttpgdDev (history store, server) and rsync (lock, deferred execution)  *)
(* are declared in headers whose implementation is not part of the source  *)
(* at hand; they are modelled from the specification's sections 3 to 6.    *)
(***************************************************************************)
EXTENDS Integers, Sequences, FiniteSets, TLC

VARIABLES
    dev,      \* the tracked device object: "none", "open", "deleted"
    conf,     \* its HttpgdServerConfig: [host, port, use_token, token]
    pages,    \* history store: sequence of pages
    upid,     \* history store: update id
    clip,     \* clip region active on the device
    lock,     \* rsync exclusive section: "free", "engine", "server"
    pc_e,     \* position of the drawing engine's thread
    eop,      \* the engine call in progress
    ret,      \* what the last completed engine call returned
    srv,      \* the tracked device's server
    pc_s,     \* position of the server's request handler thread
    req,      \* the request being handled
    snap,     \* what the handler copied out of the store under the lock
    resp,     \* the handler's last response
    later,    \* rsync deferred-execution slot
    notified, \* connected clients were told of the closure
    dev2,     \* a second device object: "none", "open"
    conf2,    \* its config
    srv2,     \* its server
    task_runs \* how many times the task scheduled last has been run

vars == <<dev, conf, pages, upid, clip, lock, pc_e, eop, ret, srv, pc_s, req,
          snap, resp, later, notified, dev2, conf2, srv2, task_runs>>

store_vars == <<pages, upid, clip>>
dev_vars == <<dev, conf, dev2, conf2>>
srv_vars == <<srv, srv2, notified>>
handler_vars == <<pc_s, req, snap, resp>>
later_vars == <<later, task_runs>>

(***************************************************************************)
(* Bounds of the model.                                                    *)
(***************************************************************************)
MaxPages == 2
MaxCmds == 2
MaxUpid == 4

(***************************************************************************)
(* Program constants.                                                      *)
(***************************************************************************)
R_MaxDevices == 64
PtPerInch == 72
MetricScale == 10000

(***************************************************************************)
(* Input sets.                                                             *)
(***************************************************************************)
Hosts == {"127.0.0.1"}
Ports == {8080, 8081}
Tokens == {"", "abc123"}
ReqTokens == {"", "abc123", "zzz"}
ClipRects == {0, 1}
Coords == {50}
PageDims == {100}
Backgrounds == {"white"}
TargetSizes == {100, 200}
DevNums == {0, 2, 4, 65}
PageNums == 0 .. MaxPages + 1
\* what the external font-metrics service answers: an error code and a width
FontAnswers == {[error |-> 0, width |-> 10000], [error |-> 1, width |-> 5000]}

\* what the service answers for one glyph: an error code and what it left in the outputs
GlyphAnswers ==
    {[error |-> 0, ascent |-> 7500, descent |-> 2500, width |-> 5000],
     [error |-> 1, ascent |-> 2500, descent |-> 5000, width |-> 7500]}
\* character codes; the engine passes a negative code for a Unicode point
GlyphChars == {-65, 65}
TokenLens == {-2, -1, 0, 1, 2}
TokenChars == {"a", "b"}

None == <<>>
Some(v) == <<v>>
NoCall == [kind |-> "none"]

(***************************************************************************)
(* Draw commands and pages (DrawData.h, modelled from the specification,   *)
(* sections 3 and 4.1 to 4.3).                                             *)
(***************************************************************************)
\* dc::Line: geometry plus the clip region active when it was drawn
Line(x, c) == [kind |-> "line", x |-> x, clip |-> c, sw |-> 0]
\* dc::Polyline, dc::Polygon, dc::Path, dc::Rect, dc::Circle, dc::Raster: as dc::Line,
\* the geometry stood for by one coordinate
Polyline(x, c) == [kind |-> "polyline", x |-> x, clip |-> c, sw |-> 0]
Polygon(x, c) == [kind |-> "polygon", x |-> x, clip |-> c, sw |-> 0]
Path(x, c) == [kind |-> "path", x |-> x, clip |-> c, sw |-> 0]
Rect(x, c) == [kind |-> "rect", x |-> x, clip |-> c, sw |-> 0]
Circle(x, c) == [kind |-> "circle", x |-> x, clip |-> c, sw |-> 0]
Raster(x, c) == [kind |-> "raster", x |-> x, clip |-> c, sw |-> 0]
\* dc::Text with its dc::TextInfo: the string width measured at issue time
Text(x, c, width) == [kind |-> "text", x |-> x, clip |-> c, sw |-> width]

Page(w, h, bg) == [cmds |-> <<>>, w |-> w, h |-> h, bg |-> bg, closed |-> FALSE]

close_pages(ps) == [i \in 1 .. Len(ps) |-> [ps[i] EXCEPT !.closed = TRUE]]

has_open(ps) == Len(ps) > 0 /\ ~ps[Len(ps)].closed

valid_page(ps, k) == 1 <= k /\ k <= Len(ps)

erase_page(ps, k) == SubSeq(ps, 1, k - 1) \o SubSeq(ps, k + 1, Len(ps))

\* the vector renderer: every coordinate scaled by target width / page width
scale_cmd(c, pw, tw) == [c EXCEPT !.x = (c.x * tw) \div pw]

render(p, tw, th) ==
    [w |-> tw, h |-> th, bg |-> p.bg,
     body |-> [i \in 1 .. Len(p.cmds) |-> scale_cmd(p.cmds[i], p.w, tw)]]

\* render of page k of the store ps, None when k is out of range (NotFound)
svg_of(ps, k, tw, th) ==
    IF valid_page(ps, k) THEN Some(render(ps[k], tw, th)) ELSE None

(***************************************************************************)
(* HttpgdDev's history store operations (HttpgdDev.h, modelled from the    *)
(* specification, section 4.2).  Each states the store after the call.     *)
(***************************************************************************)
new_page(w, h, bg) ==
    /\ pages' = Append(close_pages(pages), Page(w, h, bg))
    /\ upid' = upid + 1
    /\ clip' = 0

put(c) ==
    /\ IF has_open(pages)
       THEN /\ pages' = [pages EXCEPT ![Len(pages)].cmds = Append(@, c)]
            /\ upid' = upid + 1
       ELSE UNCHANGED <<pages, upid>>
    /\ UNCHANGED clip

\* clip_page applying the region to the commands the open page already holds
clip_page_reclip(r) ==
    /\ clip' = r
    /\ pages' = IF has_open(pages)
                THEN [pages EXCEPT ![Len(pages)].cmds =
                        [i \in 1 .. Len(@) |-> [@[i] EXCEPT !.clip = r]]]
                ELSE pages
    /\ UNCHANGED upid

clip_page(r) ==
    /\ clip' = r
    /\ UNCHANGED <<pages, upid>>

store_remove(k) ==
    /\ IF valid_page(pages, k)
       THEN /\ pages' = erase_page(pages, k)
            /\ upid' = upid + 1
       ELSE UNCHANGED <<pages, upid>>
    /\ UNCHANGED clip

\* what store_remove returns: FALSE is the NotFound condition
store_remove_result(k) == valid_page(pages, k)

store_clear ==
    /\ pages' = <<>>
    /\ upid' = upid + 1
    /\ UNCHANGED clip

hist_clear ==
    /\ pages' = <<>>
    /\ upid' = upid + 1
    /\ UNCHANGED clip

store_svg(k, tw, th) == svg_of(pages, k, tw, th)

\* HttpgdDev::page_size: the size drawing currently has, that of the current page
page_size ==
    IF Len(pages) > 0 THEN [w |-> pages[Len(pages)].w, h |-> pages[Len(pages)].h]
    ELSE [w |-> 0, h |-> 0]

store_get_page_count == Len(pages)

store_get_upid == upid

(***************************************************************************)
(* rsync (RSync.h, modelled from the specification, section 4.4): the      *)
(* exclusive section.                                                      *)
(***************************************************************************)
rsync_lock(who) == lock = "free" /\ lock' = who

rsync_unlock == lock' = "free"

(***************************************************************************)
(* Device start.                                                           *)
(***************************************************************************)
\* the pre-bind liveness probe: does a server of this system answer at host:port
check_server_started(host, port) ==
    \/ dev = "open" /\ srv = "listening" /\ conf.host = host /\ conf.port = port
    \/ dev2 = "open" /\ srv2 = "listening" /\ conf2.host = host /\ conf2.port = port

\* httpgd_ with the token test inverted (use_token = token.empty())
server_config_inverted(host, port, token) ==
    [host |-> host, port |-> port, use_token |-> Len(token) = 0, token |-> token]

\* httpgd_ builds the server config from its arguments
server_config(host, port, token) ==
    [host |-> host, port |-> port, use_token |-> Len(token) > 0, token |-> token]

\* makehttpgdDevice; HttpgdDev::start_server starts the server thread and returns
makehttpgdDevice(c) ==
    /\ pc_e = "idle"
    /\ IF check_server_started(c.host, c.port)
       THEN /\ ret' = Some([op |-> "start", ok |-> FALSE, val |-> "already running"])
            /\ UNCHANGED <<dev_vars, store_vars, srv_vars>>
       ELSE \/ /\ dev = "none"
               /\ dev' = "open" /\ conf' = c /\ srv' = "starting"
               /\ pages' = <<>> /\ upid' = 0 /\ clip' = 0
               /\ ret' = Some([op |-> "start", ok |-> TRUE, val |-> "device 1"])
               /\ UNCHANGED <<dev2, conf2, srv2, notified>>
            \/ /\ dev # "none" /\ dev2 = "none"
               /\ dev2' = "open" /\ conf2' = c /\ srv2' = "starting"
               /\ ret' = Some([op |-> "start", ok |-> TRUE, val |-> "device 2"])
               /\ UNCHANGED <<dev, conf, srv, notified, store_vars>>
    /\ UNCHANGED <<lock, pc_e, eop, handler_vars, later_vars>>

httpgd_(host, port, token) == makehttpgdDevice(server_config(host, port, token))

(***************************************************************************)
(* The drawing engine calls into the device.  Every HttpgdDev method that  *)
(* touches the history store first enters the exclusive section.           *)
(***************************************************************************)
DrawCalls ==
    {[kind |-> "new_page"]}
    \cup {[kind |-> "line", x |-> x] : x \in Coords}
    \cup {[kind |-> "clip", rect |-> r] : r \in ClipRects}

TextCalls == {[kind |-> "text", x |-> x, font |-> f] : x \in Coords, f \in FontAnswers}

\* the other draw callbacks of the table: polyline, polygon, path, rect, circle, raster
ShapeKinds == {"polyline", "polygon", "path", "rect", "circle", "raster"}

ShapeCalls == {[kind |-> k, x |-> x] : k \in ShapeKinds, x \in Coords}

\* the callbacks that put a draw command
DrawKinds == {"line", "text"} \cup ShapeKinds

\* dd->size and dd->mode (start draw = 1, stop draw = 0)
SizeCalls == {[kind |-> "size"]}

ModeCalls == {[kind |-> "mode", mode |-> m] : m \in {0, 1}}

\* the calls that keep the store within mp pages, mc commands a page and upid mu
within_bounds(op, mp, mc, mu) ==
    /\ op.kind = "new_page" => Len(pages) < mp
    /\ op.kind \in DrawKinds =>
           (has_open(pages) => Len(pages[Len(pages)].cmds) < mc /\ upid < mu)
    /\ op.kind \in {"new_page", "remove", "clear"} => upid < mu

\* the engine calls a device callback; the device waits for the exclusive section
engine_call(op) ==
    /\ pc_e = "idle" /\ dev = "open"
    /\ rsync_lock("engine")
    /\ pc_e' = "cs" /\ eop' = op /\ ret' = None
    /\ UNCHANGED <<dev_vars, store_vars, srv_vars, handler_vars, later_vars>>

\* what every callback does on its way out
engine_return(v) ==
    /\ rsync_unlock
    /\ pc_e' = "idle" /\ ret' = v /\ eop' = NoCall
    /\ UNCHANGED <<dev_vars, srv_vars, handler_vars, later_vars>>

httpgd_new_page ==
    /\ pc_e = "cs" /\ eop.kind = "new_page"
    /\ \E w \in PageDims, h \in PageDims, bg \in Backgrounds : new_page(w, h, bg)
    /\ engine_return(Some([op |-> "new_page", ok |-> TRUE, val |-> 0]))

\* httpgd_line building the wrong draw command (a rectangle)
httpgd_line_rect ==
    /\ pc_e = "cs" /\ eop.kind = "line"
    /\ put([kind |-> "rect", x |-> eop.x, clip |-> clip, sw |-> 0])
    /\ engine_return(Some([op |-> "line", ok |-> TRUE, val |-> 0]))

\* httpgd_line drawing on the first page of the history
httpgd_line_first ==
    /\ pc_e = "cs" /\ eop.kind = "line"
    /\ IF Len(pages) > 0
       THEN /\ pages' = [pages EXCEPT ![1].cmds = Append(@, Line(eop.x, clip))]
            /\ upid' = upid + 1
       ELSE UNCHANGED <<pages, upid>>
    /\ UNCHANGED clip
    /\ engine_return(Some([op |-> "line", ok |-> TRUE, val |-> 0]))

httpgd_line ==
    /\ pc_e = "cs" /\ eop.kind = "line"
    /\ put(Line(eop.x, clip))
    /\ engine_return(Some([op |-> "line", ok |-> TRUE, val |-> 0]))

httpgd_polyline ==
    /\ pc_e = "cs" /\ eop.kind = "polyline"
    /\ put(Polyline(eop.x, clip))
    /\ engine_return(Some([op |-> "polyline", ok |-> TRUE, val |-> 0]))

httpgd_polygon ==
    /\ pc_e = "cs" /\ eop.kind = "polygon"
    /\ put(Polygon(eop.x, clip))
    /\ engine_return(Some([op |-> "polygon", ok |-> TRUE, val |-> 0]))

httpgd_path ==
    /\ pc_e = "cs" /\ eop.kind = "path"
    /\ put(Path(eop.x, clip))
    /\ engine_return(Some([op |-> "path", ok |-> TRUE, val |-> 0]))

httpgd_rect ==
    /\ pc_e = "cs" /\ eop.kind = "rect"
    /\ put(Rect(eop.x, clip))
    /\ engine_return(Some([op |-> "rect", ok |-> TRUE, val |-> 0]))

httpgd_circle ==
    /\ pc_e = "cs" /\ eop.kind = "circle"
    /\ put(Circle(eop.x, clip))
    /\ engine_return(Some([op |-> "circle", ok |-> TRUE, val |-> 0]))

httpgd_raster ==
    /\ pc_e = "cs" /\ eop.kind = "raster"
    /\ put(Raster(eop.x, clip))
    /\ engine_return(Some([op |-> "raster", ok |-> TRUE, val |-> 0]))

\* dd->size: left and top are 0, right and bottom the width and height page_size gives
httpgd_size ==
    /\ pc_e = "cs" /\ eop.kind = "size"
    /\ engine_return(Some([op |-> "size", ok |-> TRUE,
                           val |-> [left |-> 0, right |-> page_size.w,
                                    bottom |-> page_size.h, top |-> 0]]))
    /\ UNCHANGED store_vars

\* httpgd_strwidth trusting the width whatever the error code
httpgd_strwidth_unchecked(f) ==
    (f.width * PtPerInch) \div MetricScale

\* string width in points; a failure of the font-metrics service gives 0
httpgd_strwidth(f) ==
    ((IF f.error # 0 THEN 0 ELSE f.width) * PtPerInch) \div MetricScale

\* httpgd_text drawing on the last page whether it is open or not
httpgd_text_force ==
    /\ pc_e = "cs" /\ eop.kind = "text"
    /\ IF Len(pages) > 0
       THEN /\ pages' = [pages EXCEPT ![Len(pages)].cmds =
                            Append(@, Text(eop.x, clip, httpgd_strwidth(eop.font)))]
            /\ upid' = upid + 1
       ELSE UNCHANGED <<pages, upid>>
    /\ UNCHANGED clip
    /\ engine_return(Some([op |-> "text", ok |-> TRUE, val |-> 0]))

httpgd_text ==
    /\ pc_e = "cs" /\ eop.kind = "text"
    /\ put(Text(eop.x, clip, httpgd_strwidth(eop.font)))
    /\ engine_return(Some([op |-> "text", ok |-> TRUE, val |-> 0]))

httpgd_clip ==
    /\ pc_e = "cs" /\ eop.kind = "clip"
    /\ clip_page(eop.rect)
    /\ engine_return(Some([op |-> "clip", ok |-> TRUE, val |-> 0]))

(***************************************************************************)
(* Calls that do not go to the history store: the engine's metric          *)
(* callbacks and the token generator.                                      *)
(***************************************************************************)
\* character metrics in points; a failure of the font-metrics service gives zeros
httpgd_metric_info(c, g) ==
    LET code == IF c < 0 THEN -c ELSE c
        mod(v) == ((IF g.error # 0 THEN 0 ELSE v) * PtPerInch) \div MetricScale
    IN [c |-> code, ascent |-> mod(g.ascent), descent |-> mod(g.descent),
        width |-> mod(g.width)]

\* HttpgdDev::random_token: the tokens of length len
random_token(len) == [1 .. len -> TokenChars]

MetricCalls ==
    {[kind |-> "metric_info", c |-> c, glyph |-> g] : c \in GlyphChars, g \in GlyphAnswers}
    \cup {[kind |-> "strwidth", font |-> f] : f \in FontAnswers}

TokenCalls == {[kind |-> "random_token", len |-> n] : n \in TokenLens}

\* the engine calls in; no exclusive section is taken
plain_call(op) ==
    /\ pc_e = "idle"
    /\ op.kind \in {"metric_info", "strwidth", "mode"} => dev = "open"
    /\ pc_e' = "run" /\ eop' = op /\ ret' = None
    /\ UNCHANGED <<dev_vars, store_vars, lock, srv_vars, handler_vars, later_vars>>

plain_return(v) ==
    /\ pc_e' = "idle" /\ ret' = v /\ eop' = NoCall
    /\ UNCHANGED <<dev_vars, store_vars, lock, srv_vars, handler_vars, later_vars>>

\* dd->metricInfo
dd_metricInfo ==
    /\ pc_e = "run" /\ eop.kind = "metric_info"
    /\ plain_return(Some([op |-> "metric_info", ok |-> TRUE,
                          val |-> httpgd_metric_info(eop.c, eop.glyph)]))

\* dd->strWidth
dd_strWidth ==
    /\ pc_e = "run" /\ eop.kind = "strwidth"
    /\ plain_return(Some([op |-> "strwidth", ok |-> TRUE,
                          val |-> httpgd_strwidth(eop.font)]))

\* dd->mode: HttpgdDev::mode is told that drawing starts or stops; the history store
\* is as it was
httpgd_mode ==
    /\ pc_e = "run" /\ eop.kind = "mode"
    /\ plain_return(Some([op |-> "mode", ok |-> TRUE, val |-> eop.mode]))

\* httpgd_random_token_ refusing the length 0 as well
httpgd_random_token_strict ==
    /\ pc_e = "run" /\ eop.kind = "random_token"
    /\ IF eop.len <= 0
       THEN plain_return(Some([op |-> "random_token", ok |-> FALSE,
                               val |-> "Length needs to be 0 or higher."]))
       ELSE \E tok \in random_token(eop.len) :
               plain_return(Some([op |-> "random_token", ok |-> TRUE, val |-> tok]))

httpgd_random_token_ ==
    /\ pc_e = "run" /\ eop.kind = "random_token"
    /\ IF eop.len < 0
       THEN plain_return(Some([op |-> "random_token", ok |-> FALSE,
                               val |-> "Length needs to be 0 or higher."]))
       ELSE \E tok \in random_token(eop.len) :
               plain_return(Some([op |-> "random_token", ok |-> TRUE, val |-> tok]))

(***************************************************************************)
(* Embedding-facing calls, made on the engine's thread.                    *)
(***************************************************************************)
\* the engine's device table: slot 0 is the null device, which has no device
\* description; slots 1 and 2 are where this system's devices are put; slot 3 holds a
\* live device of another kind, with its own deviceSpecific object
GEgetDevice(i) ==
    IF i = 1 /\ dev = "open" THEN "httpgd"
    ELSE IF i = 2 /\ dev2 = "open" THEN "httpgd2"
    ELSE IF i = 3 THEN "foreign"
    ELSE "null"

\* the object validate_httpgddev hands back as HttpgdDev*: the deviceSpecific of
\* whatever device the number designates; "stop" is Rcpp::stop
validate_httpgddev(devnum) ==
    IF devnum < 1 \/ devnum > R_MaxDevices THEN "stop"
    ELSE IF GEgetDevice(devnum - 1) = "null" THEN "stop"
    ELSE GEgetDevice(devnum - 1)

EmbedCalls ==
    {[kind |-> "state", devnum |-> d] : d \in DevNums}
    \cup {[kind |-> "svg", devnum |-> d, page |-> k, w |-> tw, h |-> tw] :
            d \in DevNums, k \in PageNums, tw \in TargetSizes}
    \cup {[kind |-> "remove", devnum |-> d, page |-> k] : d \in DevNums, k \in PageNums}
    \cup {[kind |-> "clear", devnum |-> d] : d \in DevNums}

\* Rcpp::stop out of validate_httpgddev: the call ends before it reaches the device
embed_invalid(op) ==
    /\ pc_e = "idle"
    /\ validate_httpgddev(op.devnum) = "stop"
    /\ ret' = Some([op |-> op.kind, ok |-> FALSE, val |-> "invalid device"])
    /\ UNCHANGED <<dev_vars, store_vars, lock, pc_e, eop, srv_vars, handler_vars,
                   later_vars>>

\* validate_httpgddev handing back the deviceSpecific of a device of another kind: the
\* call goes on with an object that is no HttpgdDev, which is undefined; it returns
\* whatever it finds there, or the process faults
embed_foreign(op) ==
    /\ pc_e = "idle"
    /\ validate_httpgddev(op.devnum) = "foreign"
    /\ \/ ret' = Some([op |-> op.kind, ok |-> TRUE, val |-> "undefined"])
       \/ ret' = Some([op |-> op.kind, ok |-> FALSE, val |-> "fault"])
    /\ UNCHANGED <<dev_vars, store_vars, lock, pc_e, eop, srv_vars, handler_vars,
                   later_vars>>

embed_call(op) ==
    /\ validate_httpgddev(op.devnum) = "httpgd"
    /\ op.kind = "state" => srv # "starting"
    /\ engine_call(op)

\* httpgd_state_ with the page count reported as upid
httpgd_state_swapped ==
    /\ pc_e = "cs" /\ eop.kind = "state"
    /\ engine_return(Some([op |-> "state", ok |-> TRUE,
                           val |-> [host |-> conf.host, port |-> conf.port,
                                    token |-> conf.token,
                                    hsize |-> store_get_page_count,
                                    upid |-> store_get_page_count]]))
    /\ UNCHANGED store_vars

httpgd_state_ ==
    /\ pc_e = "cs" /\ eop.kind = "state"
    /\ engine_return(Some([op |-> "state", ok |-> TRUE,
                           val |-> [host |-> conf.host, port |-> conf.port,
                                    token |-> conf.token,
                                    hsize |-> store_get_page_count,
                                    upid |-> store_get_upid]]))
    /\ UNCHANGED store_vars

httpgd_svg_ ==
    /\ pc_e = "cs" /\ eop.kind = "svg"
    /\ LET out == store_svg(eop.page, eop.w, eop.h)
       IN engine_return(Some([op |-> "svg", ok |-> out # None, val |-> out]))
    /\ UNCHANGED store_vars

\* httpgd_remove_ passing a 0-based index to the 1-based store
httpgd_remove_off_by_one ==
    /\ pc_e = "cs" /\ eop.kind = "remove"
    /\ store_remove(eop.page - 1)
    /\ engine_return(Some([op |-> "remove", ok |-> store_remove_result(eop.page - 1),
                           val |-> 0]))

\* httpgd_remove_ returning the opposite of what the store reported
httpgd_remove_negated ==
    /\ pc_e = "cs" /\ eop.kind = "remove"
    /\ store_remove(eop.page)
    /\ engine_return(Some([op |-> "remove", ok |-> ~store_remove_result(eop.page),
                           val |-> 0]))

httpgd_remove_ ==
    /\ pc_e = "cs" /\ eop.kind = "remove"
    /\ store_remove(eop.page)
    /\ engine_return(Some([op |-> "remove", ok |-> store_remove_result(eop.page),
                           val |-> 0]))

\* httpgd_clear_ forwarding to store_remove of the first page instead of store_clear
httpgd_clear_first_only ==
    /\ pc_e = "cs" /\ eop.kind = "clear"
    /\ store_remove(1)
    /\ engine_return(Some([op |-> "clear", ok |-> TRUE, val |-> 0]))

httpgd_clear_ ==
    /\ pc_e = "cs" /\ eop.kind = "clear"
    /\ store_clear
    /\ engine_return(Some([op |-> "clear", ok |-> TRUE, val |-> 0]))

(***************************************************************************)
(* rsync deferred execution (RSync.h, modelled from the specification,     *)
(* section 4.4): one slot; the engine takes the pending task at a safe     *)
(* point and runs it on its own thread.                                    *)
(***************************************************************************)
\* run_later leaving the task in the slot
run_later_keep(back) ==
    /\ later # None
    /\ task_runs < 2
    /\ rsync_lock("engine")
    /\ task_runs' = task_runs + 1
    /\ pc_e' = "cs"
    /\ eop' = [kind |-> "later", task |-> later[1], back |-> back]
    /\ ret' = None
    /\ UNCHANGED <<later, dev_vars, store_vars, srv_vars, handler_vars>>

\* the engine takes the pending task out of the slot and enters the exclusive
\* section to run it; back is where the engine resumes
run_later(back) ==
    /\ later # None
    /\ rsync_lock("engine")
    /\ later' = None
    /\ task_runs' = task_runs + 1
    /\ pc_e' = "cs"
    /\ eop' = [kind |-> "later", task |-> later[1], back |-> back]
    /\ ret' = None
    /\ UNCHANGED <<dev_vars, store_vars, srv_vars, handler_vars>>

\* a safe point of the idle engine: the engine's thread goes on reaching safe points
\* whatever has become of the device
safe_point ==
    /\ pc_e = "idle"
    /\ run_later("idle")

\* the task itself: the mutation a request asked for; a handler that chose to block
\* until its task has completed is answered now
later_task ==
    /\ pc_e = "cs" /\ eop.kind = "later"
    /\ IF eop.task.kind = "remove" THEN store_remove(eop.task.page) ELSE store_clear
    /\ rsync_unlock
    /\ pc_e' = eop.back /\ eop' = NoCall
    /\ IF eop.task.wait
       THEN /\ pc_s' = "idle" /\ req' = None
            /\ resp' = Some([status |-> 200, kind |-> eop.task.kind,
                             ok |-> IF eop.task.kind = "remove"
                                    THEN store_remove_result(eop.task.page)
                                    ELSE TRUE,
                             body |-> None])
            /\ UNCHANGED snap
       ELSE UNCHANGED handler_vars
    /\ UNCHANGED <<ret, dev_vars, srv_vars, later_vars>>

(***************************************************************************)
(* The live server (HttpgdServer, modelled from the specification,         *)
(* sections 4.5, 5 and 6).                                                 *)
(***************************************************************************)
port_held(s) == s \in {"listening", "closing"}

\* the server thread binds the port HttpgdDev::start_server asked for
server_bind ==
    /\ srv = "starting"
    /\ srv' = IF port_held(srv2) /\ conf2.host = conf.host /\ conf2.port = conf.port
              THEN "failed" ELSE "listening"
    /\ UNCHANGED <<dev_vars, store_vars, lock, pc_e, eop, ret, srv2, notified,
                   handler_vars, later_vars>>

server2_bind ==
    /\ srv2 = "starting"
    /\ srv2' = IF port_held(srv) /\ conf2.host = conf.host /\ conf2.port = conf.port
               THEN "failed" ELSE "listening"
    /\ UNCHANGED <<dev_vars, store_vars, lock, pc_e, eop, ret, srv, notified,
                   handler_vars, later_vars>>

Requests ==
    {[kind |-> "state", token |-> t] : t \in ReqTokens}
    \cup {[kind |-> "plot", token |-> t, page |-> k, w |-> tw, h |-> tw] :
            t \in ReqTokens, k \in PageNums, tw \in TargetSizes}
    \cup {[kind |-> "remove", token |-> t, page |-> k] : t \in ReqTokens, k \in PageNums}
    \cup {[kind |-> "clear", token |-> t] : t \in ReqTokens}

\* the requests of a client that sends no token
OpenRequests == {r \in Requests : r.token = ""}

\* the token check every gated endpoint makes first
authorized(c, r) == ~c.use_token \/ r.token = c.token

\* a request arrives and is checked; a rejected one is answered at once
srv_request(r) ==
    /\ pc_s = "idle" /\ srv = "listening"
    /\ IF authorized(conf, r)
       THEN /\ req' = Some(r)
            /\ resp' = None
            /\ pc_s' = IF r.kind \in {"remove", "clear"} THEN "sched" ELSE "lock"
       ELSE /\ req' = None
            /\ resp' = Some([status |-> 401, kind |-> r.kind, ok |-> FALSE,
                             body |-> None])
            /\ pc_s' = "idle"
    /\ UNCHANGED <<snap, dev_vars, store_vars, lock, pc_e, eop, ret, srv_vars,
                   later_vars>>

\* the handler waits for the exclusive section
srv_lock ==
    /\ pc_s = "lock"
    /\ rsync_lock("server")
    /\ pc_s' = "cs"
    /\ UNCHANGED <<req, snap, resp, dev_vars, store_vars, pc_e, eop, ret, srv_vars,
                   later_vars>>

\* srv_read keeping the exclusive section while the handler goes on to respond
srv_read_hold ==
    /\ pc_s = "cs"
    /\ snap' = IF req[1].kind = "state"
               THEN Some([hsize |-> store_get_page_count, upid |-> store_get_upid])
               ELSE Some([upid |-> store_get_upid,
                          page |-> IF valid_page(pages, req[1].page)
                                   THEN Some(pages[req[1].page]) ELSE None])
    /\ pc_s' = "respond"
    /\ UNCHANGED <<req, resp, dev_vars, store_vars, lock, pc_e, eop, ret, srv_vars,
                   later_vars>>

\* inside the section the handler copies what it needs and leaves
srv_read ==
    /\ pc_s = "cs"
    /\ snap' = IF req[1].kind = "state"
               THEN Some([hsize |-> store_get_page_count, upid |-> store_get_upid])
               ELSE Some([upid |-> store_get_upid,
                          page |-> IF valid_page(pages, req[1].page)
                                   THEN Some(pages[req[1].page]) ELSE None])
    /\ rsync_unlock
    /\ pc_s' = "respond"
    /\ UNCHANGED <<req, resp, dev_vars, store_vars, pc_e, eop, ret, srv_vars,
                   later_vars>>

\* outside the section: render the copy and write the response
srv_respond ==
    /\ pc_s = "respond"
    /\ resp' = IF req[1].kind = "state"
               THEN Some([status |-> 200, kind |-> "state", ok |-> TRUE,
                          body |-> Some([host |-> conf.host, port |-> conf.port,
                                         token |-> conf.token,
                                         hsize |-> snap[1].hsize,
                                         upid |-> snap[1].upid])])
               ELSE IF snap[1].page = None
               THEN Some([status |-> 404, kind |-> "plot", ok |-> FALSE, body |-> None])
               ELSE Some([status |-> 200, kind |-> "plot", ok |-> TRUE,
                          body |-> Some(render(snap[1].page[1], req[1].w, req[1].h))])
    /\ pc_s' = "idle" /\ req' = None /\ snap' = None
    /\ UNCHANGED <<dev_vars, store_vars, lock, pc_e, eop, ret, srv_vars, later_vars>>

\* remove and clear are handed to the engine: the handler fills the slot and then
\* either blocks until the task has completed or answers at once
srv_schedule ==
    /\ pc_s = "sched"
    /\ later = None
    /\ \E wait \in BOOLEAN :
          /\ later' = Some([kind |-> req[1].kind,
                            page |-> IF req[1].kind = "remove" THEN req[1].page ELSE 0,
                            wait |-> wait])
          /\ IF wait
             THEN /\ pc_s' = "await"
                  /\ UNCHANGED <<req, resp>>
             ELSE /\ pc_s' = "idle" /\ req' = None
                  /\ resp' = Some([status |-> 200, kind |-> req[1].kind, ok |-> TRUE,
                                   body |-> None])
    /\ task_runs' = 0
    /\ UNCHANGED <<snap, dev_vars, store_vars, lock, pc_e, eop, ret, srv_vars>>

(***************************************************************************)
(* Device close: httpgd_close, statement by statement.                     *)
(***************************************************************************)
\* httpgd_close deleting the device before it shuts the server down
close_steps_delete_first ==
    <<"c_await", "c_lock", "c_unlock", "c_clear", "c_delete", "c_shutdown">>

\* httpgd_close without the rsync::unlock() after its rsync::lock()
close_steps_no_unlock == <<"c_await", "c_lock", "c_clear", "c_shutdown", "c_delete">>

\* the statements of httpgd_close in program order
close_steps == <<"c_await", "c_lock", "c_unlock", "c_clear", "c_shutdown", "c_delete">>

\* the position after a statement of httpgd_close; the callback returns after the last
close_after(step) ==
    LET i == CHOOSE j \in 1 .. Len(close_steps) : close_steps[j] = step
    IN IF i < Len(close_steps) THEN close_steps[i + 1] ELSE "idle"

\* the engine closes the device: dd->close is called
close_call ==
    /\ pc_e = "idle" /\ dev = "open"
    /\ pc_e' = close_steps[1] /\ ret' = None
    /\ UNCHANGED <<eop, dev_vars, store_vars, lock, srv_vars, handler_vars, later_vars>>

\* rsync::awaitLater(): run the pending task, if there is one, and go on
awaitLater ==
    /\ pc_e = "c_await"
    /\ IF later # None
       THEN run_later(close_after("c_await"))
       ELSE /\ pc_e' = close_after("c_await")
            /\ UNCHANGED <<eop, ret, dev_vars, store_vars, lock, srv_vars,
                           handler_vars, later_vars>>

\* rsync::lock()
httpgd_close_lock ==
    /\ pc_e = "c_lock"
    /\ rsync_lock("engine")
    /\ pc_e' = close_after("c_lock")
    /\ UNCHANGED <<eop, ret, dev_vars, store_vars, srv_vars, handler_vars, later_vars>>

\* rsync::unlock()
httpgd_close_unlock ==
    /\ pc_e = "c_unlock"
    /\ rsync_unlock
    /\ pc_e' = close_after("c_unlock")
    /\ UNCHANGED <<eop, ret, dev_vars, store_vars, srv_vars, handler_vars, later_vars>>

\* hist_clear going on without the exclusive section
hist_clear_enter_unlocked ==
    /\ pc_e = "c_clear"
    /\ pc_e' = "c_clear_cs"
    /\ UNCHANGED <<eop, ret, dev_vars, store_vars, lock, srv_vars, handler_vars,
                   later_vars>>

\* dev->hist_clear(): the device enters the exclusive section ...
hist_clear_enter ==
    /\ pc_e = "c_clear"
    /\ rsync_lock("engine")
    /\ pc_e' = "c_clear_cs"
    /\ UNCHANGED <<eop, ret, dev_vars, store_vars, srv_vars, handler_vars, later_vars>>

\* ... and clears the history
httpgd_close_hist_clear ==
    /\ pc_e = "c_clear_cs"
    /\ hist_clear
    /\ rsync_unlock
    /\ pc_e' = close_after("c_clear")
    /\ UNCHANGED <<eop, ret, dev_vars, srv_vars, handler_vars, later_vars>>

\* dev->shutdown_server(), (a): the server stops accepting connections
shutdown_stop_accepting ==
    /\ pc_e = "c_shutdown"
    /\ srv' = IF srv = "listening" THEN "closing" ELSE "stopped"
    /\ pc_e' = "c_shutdown_b"
    /\ UNCHANGED <<eop, ret, dev_vars, store_vars, lock, srv2, notified, handler_vars,
                   later_vars>>

\* (b): connected clients are told that the server closes
shutdown_notify ==
    /\ pc_e = "c_shutdown_b"
    /\ notified' = TRUE
    /\ pc_e' = "c_shutdown_c"
    /\ UNCHANGED <<eop, ret, dev_vars, store_vars, lock, srv, srv2, handler_vars,
                   later_vars>>

\* (c), (d): the listening port is released and completion is signalled to the
\* engine: shutdown_server returns.  A request in flight has no cancellation and
\* is not waited for.
shutdown_release ==
    /\ pc_e = "c_shutdown_c"
    /\ srv' = "stopped"
    /\ pc_e' = close_after("c_shutdown")
    /\ UNCHANGED <<eop, ret, dev_vars, store_vars, lock, srv2, notified, handler_vars,
                   later_vars>>

\* delete dev
httpgd_close_delete ==
    /\ pc_e = "c_delete"
    /\ dev' = "deleted"
    /\ pc_e' = close_after("c_delete")
    /\ ret' = Some([op |-> "close", ok |-> TRUE, val |-> 0])
    /\ UNCHANGED <<eop, conf, dev2, conf2, store_vars, lock, srv_vars, handler_vars,
                   later_vars>>

(***************************************************************************)
(* The specification.                                                      *)
(***************************************************************************)
NoConf == [host |-> "", port |-> 0, use_token |-> FALSE, token |-> ""]

\* before any device is started
Init ==
    /\ dev = "none" /\ conf = NoConf
    /\ pages = <<>> /\ upid = 0 /\ clip = 0
    /\ lock = "free"
    /\ pc_e = "idle" /\ eop = NoCall /\ ret = None
    /\ srv = "none"
    /\ pc_s = "idle" /\ req = None /\ snap = None /\ resp = None
    /\ later = None /\ task_runs = 0
    /\ notified = FALSE
    /\ dev2 = "none" /\ conf2 = NoConf /\ srv2 = "none"

\* the steps of httpgd_close and of the deferred task, the same in every specification
CloseNext ==
    \/ close_call
    \/ awaitLater
    \/ httpgd_close_lock
    \/ httpgd_close_unlock
    \/ hist_clear_enter
    \/ httpgd_close_hist_clear
    \/ shutdown_stop_accepting
    \/ shutdown_notify
    \/ shutdown_release
    \/ httpgd_close_delete

(***************************************************************************)
(* Spec: one device started without a token, the engine drawing, the       *)
(* server answering requests, device close.                                *)
(***************************************************************************)
SrvPages == 2
SrvCmds == 1
SrvUpid == 3

Next ==
    \/ \E h \in Hosts : dev = "none" /\ httpgd_(h, 8080, "")
    \/ \E op \in DrawCalls : within_bounds(op, SrvPages, SrvCmds, SrvUpid) /\ engine_call(op)
    \/ httpgd_new_page
    \/ httpgd_line
    \/ httpgd_clip
    \/ safe_point
    \/ later_task
    \/ server_bind
    \/ \E r \in OpenRequests : within_bounds(r, SrvPages, SrvCmds, SrvUpid) /\ srv_request(r)
    \/ srv_lock
    \/ srv_read
    \/ srv_respond
    \/ srv_schedule
    \/ CloseNext

Spec == Init /\ [][Next]_vars

(***************************************************************************)
(* SpecStore: one device and no client: the engine drawing and calling the *)
(* embedding-facing functions, device close.                               *)
(***************************************************************************)
NextStore ==
    \/ \E h \in Hosts, t \in Tokens : dev = "none" /\ httpgd_(h, 8080, t)
    \/ \E op \in DrawCalls \cup TextCalls :
          within_bounds(op, MaxPages, MaxCmds, MaxUpid) /\ engine_call(op)
    \/ httpgd_new_page
    \/ httpgd_line
    \/ httpgd_text
    \/ httpgd_clip
    \/ \E op \in EmbedCalls : embed_invalid(op)
    \/ \E op \in EmbedCalls : within_bounds(op, MaxPages, MaxCmds, MaxUpid) /\ embed_call(op)
    \/ httpgd_state_
    \/ httpgd_svg_
    \/ httpgd_remove_
    \/ httpgd_clear_
    \/ server_bind
    \/ CloseNext

SpecStore == Init /\ [][NextStore]_vars

(***************************************************************************)
(* SpecDraw: one device and no client: the engine calling every callback   *)
(* of the table that goes to the device, the pages queried, rendered,      *)
(* removed and cleared, device close.                                      *)
(***************************************************************************)
DrawPages == 2
DrawCmds == 2
DrawUpid == 4

NextDraw ==
    \/ \E h \in Hosts : dev = "none" /\ httpgd_(h, 8080, "")
    \/ \E op \in {[kind |-> "new_page"], [kind |-> "line", x |-> 50]} \cup ShapeCalls
                  \cup TextCalls \cup SizeCalls :
          within_bounds(op, DrawPages, DrawCmds, DrawUpid) /\ engine_call(op)
    \/ httpgd_new_page
    \/ httpgd_line
    \/ httpgd_polyline
    \/ httpgd_polygon
    \/ httpgd_path
    \/ httpgd_rect
    \/ httpgd_circle
    \/ httpgd_text
    \/ httpgd_raster
    \/ httpgd_size
    \/ \E op \in ModeCalls : plain_call(op)
    \/ httpgd_mode
    \/ \E op \in EmbedCalls : within_bounds(op, DrawPages, DrawCmds, DrawUpid) /\ embed_call(op)
    \/ httpgd_state_
    \/ httpgd_svg_
    \/ httpgd_remove_
    \/ httpgd_clear_
    \/ server_bind
    \/ CloseNext

SpecDraw == Init /\ [][NextDraw]_vars

(***************************************************************************)
(* Properties.                                                             *)
(***************************************************************************)
\* this step ends the engine's call of kind k
EngineDid(k) == pc_e = "cs" /\ eop.kind = k /\ pc_e' # "cs"

\* this step is the history clear of httpgd_close
CloseCleared == pc_e = "c_clear_cs" /\ pc_e' # "c_clear_cs"

\* this step appends to the open page
Appended == (\E k \in DrawKinds : EngineDid(k)) /\ has_open(pages)

\* this step runs a deferred remove of an existing page, or a deferred clear
LaterMutated ==
    /\ EngineDid("later")
    /\ eop.task.kind = "remove" => valid_page(pages, eop.task.page)

\* a step of the store's mutating operations: new_page, append, successful remove, clear
Mutated ==
    \/ EngineDid("new_page")
    \/ Appended
    \/ EngineDid("remove") /\ valid_page(pages, eop.page)
    \/ EngineDid("clear")
    \/ LaterMutated
    \/ CloseCleared

\* C1: current_upid() strictly increases at every mutating operation (new_page,
\* append, successful remove, clear), never decreases, is left as it is by every
\* other step (the pure reads among them), and the state query reports it.
C1_UpidStrictlyIncreases ==
    [][/\ Mutated => upid' > upid
       /\ ~Mutated => upid' = upid
       /\ EngineDid("state") => ret'[1].val.upid = upid /\ upid' = upid
       /\ EngineDid("svg") => upid' = upid]_vars

\* a state query has reported an upid above 1 after mutations
C1_Witness ==
    /\ ret # None /\ ret[1].op = "state" /\ ret[1].ok
    /\ ret[1].val.upid >= 2 /\ ret[1].val.hsize = 1

\* C2: the page count goes up by one at every new_page (a blank current page is kept),
\* down by one at every successful remove, to zero at every clear, and is the same
\* after every other step; an append puts exactly the issued command at the end of
\* the open page and changes nothing before it; the state query reports the count.
C2_PageCountAndOrder ==
    [][/\ EngineDid("new_page") =>
             /\ Len(pages') = Len(pages) + 1
             /\ \A i \in 1 .. Len(pages) : pages'[i].cmds = pages[i].cmds
             /\ pages'[Len(pages')].cmds = <<>>
       /\ (EngineDid("remove") /\ valid_page(pages, eop.page)) =>
             Len(pages') = Len(pages) - 1
       /\ (EngineDid("remove") /\ ~valid_page(pages, eop.page)) => pages' = pages
       /\ (EngineDid("clear") \/ CloseCleared) => Len(pages') = 0
       /\ Appended =>
             /\ Len(pages') = Len(pages)
             /\ \A i \in 1 .. Len(pages) - 1 : pages'[i] = pages[i]
             /\ LET old == pages[Len(pages)].cmds
                    new == pages'[Len(pages)].cmds
                IN /\ Len(new) = Len(old) + 1
                   /\ \A j \in 1 .. Len(old) : new[j] = old[j]
                   /\ new[Len(new)].kind = eop.kind
                   /\ new[Len(new)].x = eop.x
                   /\ new[Len(new)].clip = clip
       /\ ~Mutated => pages' = pages
       /\ EngineDid("state") => ret'[1].val.hsize = Len(pages)]_vars

\* a page holds two commands in the order they were appended, after a blank page
C2_Witness ==
    /\ Len(pages) = 2
    /\ pages[1].cmds = <<>>
    /\ Len(pages[2].cmds) = 2
    /\ pages[2].cmds[1].kind = "text" /\ pages[2].cmds[2].kind = "raster"

\* C3: remove(k) with 1 <= k <= N returns TRUE and leaves N-1 pages, the pages before
\* k where they were and every page after k one place down; with k < 1 or k > N it
\* returns FALSE (NotFound).
C3_RemoveShifts ==
    [][EngineDid("remove") =>
         IF 1 <= eop.page /\ eop.page <= Len(pages)
         THEN /\ ret'[1].ok
              /\ Len(pages') = Len(pages) - 1
              /\ \A j \in 1 .. eop.page - 1 : pages'[j] = pages[j]
              /\ \A j \in eop.page + 1 .. Len(pages) : pages'[j - 1] = pages[j]
         ELSE ~ret'[1].ok]_vars

\* page 1 of two was removed: what is left is the former page 2 with its command
C3_Witness ==
    /\ ret # None /\ ret[1].op = "remove" /\ ret[1].ok
    /\ Len(pages) = 1 /\ ~pages[1].closed /\ Len(pages[1].cmds) = 1

\* C10: clear() leaves no page and a higher upid; while the store is empty every page
\* number renders to NotFound, and only new_page makes it non-empty again.
C10_ClearEmpties ==
    [][/\ EngineDid("clear") =>
             /\ Len(pages') = 0
             /\ upid' > upid
             /\ \A k \in PageNums, tw \in TargetSizes : svg_of(pages', k, tw, tw) = None
       /\ (EngineDid("svg") /\ Len(pages) = 0) => ~ret'[1].ok /\ ret'[1].val = None
       /\ (Len(pages) = 0 /\ Len(pages') > 0) => EngineDid("new_page")]_vars

\* after a clear of a store that held pages, a render of page 1 has failed
C10_Witness ==
    /\ ret # None /\ ret[1].op = "svg" /\ ~ret[1].ok
    /\ Len(pages) = 0 /\ upid >= 3

\* C4: upid never decreases, and a step that leaves upid as it is leaves the render of
\* every page number at every target size as it is, an open page's included; a plot
\* response whose copy was taken at the upid the store still has is the render of the
\* store's page.
C4_SameUpidSameRender ==
    [][/\ upid' >= upid
       /\ upid' = upid =>
             \A k \in PageNums, tw \in TargetSizes :
                svg_of(pages', k, tw, tw) = svg_of(pages, k, tw, tw)
       /\ (pc_s = "respond" /\ pc_s' = "idle" /\ req[1].kind = "plot"
           /\ snap[1].upid = upid) =>
             IF valid_page(pages, req[1].page)
             THEN /\ resp'[1].status = 200
                  /\ resp'[1].body = svg_of(pages, req[1].page, req[1].w, req[1].h)
             ELSE resp'[1].status = 404]_vars

\* a handler is about to answer with the copy of a page that is still open, the clip
\* region has changed since the page's command was drawn, and upid is the copy's
C4_Witness ==
    /\ pc_s = "respond" /\ req[1].kind = "plot"
    /\ snap[1].upid = upid /\ snap[1].page # None
    /\ ~snap[1].page[1].closed /\ Len(snap[1].page[1].cmds) = 1
    /\ snap[1].page[1].cmds[1].clip # clip

EngineInStore == pc_e \in {"cs", "c_clear_cs"}

ServerInStore == pc_s = "cs"

\* C5: the engine and a server thread are never in the store together, whoever is in
\* the store holds the exclusive section, every change of the store is made by the
\* engine holding it (the history clear of device close included), and every copy a
\* handler takes of the store is taken holding it.
C5_MutualExclusion ==
    /\ [](/\ ~(EngineInStore /\ ServerInStore)
          /\ EngineInStore => lock = "engine"
          /\ ServerInStore => lock = "server")
    /\ [][/\ store_vars' # store_vars => (lock = "engine" /\ EngineInStore)
          /\ (snap' # snap /\ snap' # None) => (lock = "server" /\ ServerInStore)]_vars

\* device close is clearing the history while a handler waits for the section
C5_Witness == pc_e = "c_clear_cs" /\ pc_s = "lock" /\ Len(pages) > 0

\* C6: on shutdown the clients are notified only once the server has stopped accepting,
\* the port is released only once they are notified, the device object is deleted only
\* once the port is released, and a deleted device never has its port bound.
C6_ShutdownOrder ==
    /\ [][/\ (~notified /\ notified') => srv \notin {"starting", "listening"}
          /\ (port_held(srv) /\ ~port_held(srv')) => notified
          /\ (dev = "open" /\ dev' = "deleted") =>
                (srv = "stopped" /\ notified)]_vars
    /\ [](dev = "deleted" => ~port_held(srv))

\* the device of a server that has answered a request is deleted, its port released
C6_Witness == dev = "deleted" /\ srv = "stopped" /\ notified /\ resp # None

(***************************************************************************)
(* SpecAuth: one device started with or without a token, a page drawn, the *)
(* server answering requests that carry the token, another or none, device *)
(* close.                                                                  *)
(***************************************************************************)
AuthPages == 1
AuthUpid == 2

NextAuth ==
    \/ \E h \in Hosts, t \in Tokens : dev = "none" /\ httpgd_(h, 8080, t)
    \/ \E op \in {[kind |-> "new_page"]} :
          within_bounds(op, AuthPages, 1, AuthUpid) /\ engine_call(op)
    \/ httpgd_new_page
    \/ safe_point
    \/ later_task
    \/ server_bind
    \/ \E r \in Requests : within_bounds(r, AuthPages, 1, AuthUpid) /\ srv_request(r)
    \/ srv_lock
    \/ srv_read
    \/ srv_respond
    \/ srv_schedule
    \/ CloseNext

SpecAuth == Init /\ [][NextAuth]_vars

\* the handler is past the token check
PastAuth == pc_s \in {"lock", "cs", "respond", "sched", "await"}

\* C8: with a token configured, a request that gets past the token check carries the
\* configured token; a rejection touches neither the store nor the exclusive section
\* nor the deferred slot, and happens only when a token is configured.
C8_TokenGate ==
    /\ [](PastAuth /\ conf.token # "" => req[1].token = conf.token)
    /\ [][(resp' # resp /\ resp' # None /\ resp'[1].status = 401) =>
             /\ conf.token # ""
             /\ pc_s = "idle" /\ pc_s' = "idle"
             /\ UNCHANGED <<store_vars, snap, later, lock>>]_vars

\* with a token configured and pages in the store a request has been rejected
C8_Witness ==
    /\ conf.token # "" /\ resp # None /\ resp[1].status = 401
    /\ resp[1].kind = "state" /\ Len(pages) > 0

\* C9: a scheduled task is run at most once; awaitLater with an empty slot can go on at
\* once and goes on to the next statement of httpgd_close without touching the section;
\* after running one task the engine resumes its own work.
C9_SingleSlot ==
    /\ [](task_runs <= 1)
    /\ []((pc_e = "c_await" /\ later = None) => ENABLED awaitLater)
    /\ [][/\ (pc_e = "c_await" /\ later = None /\ pc_e' # pc_e) =>
                (pc_e' = "c_lock" /\ lock' = lock)
          /\ EngineDid("later") => pc_e' \in {"idle", "c_lock"}]_vars

\* awaitLater found a task pending and is running it
C9_Witness ==
    pc_e = "cs" /\ eop.kind = "later" /\ eop.back = "c_lock" /\ task_runs = 1

\* this step ends a draw call that appends: httpgd_line, httpgd_text, httpgd_rect, ...
AppendCall == \E k \in DrawKinds : EngineDid(k)

\* C11: an append returns normally whatever the store holds; with no open page (empty
\* store, after a clear, after the open page was removed) it changes no page, adds to
\* no remaining page and leaves upid; removing the open page leaves no open page; and
\* only new_page makes a store without an open page have one again.
C11_AppendWithoutOpenPageIsNoOp ==
    [][/\ AppendCall => ret'[1].ok
       /\ (AppendCall /\ ~has_open(pages)) => (pages' = pages /\ upid' = upid)
       /\ (EngineDid("remove") /\ has_open(pages) /\ eop.page = Len(pages)) =>
             ~has_open(pages')
       /\ (EngineDid("clear") \/ CloseCleared) => ~has_open(pages')
       /\ (~has_open(pages) /\ has_open(pages')) => EngineDid("new_page")]_vars

\* the open page was removed, and a text drawn afterwards has returned: the remaining
\* page still holds its one command
C11_Witness ==
    /\ ret # None /\ ret[1].op = "text" /\ ret[1].ok
    /\ Len(pages) = 1 /\ pages[1].closed /\ Len(pages[1].cmds) = 1
    /\ upid >= 4

\* C15: a remove that reports failure (NotFound) leaves the store as it was: the same
\* pages with the same commands, sizes and backgrounds, the current page open or
\* closed as before, the same upid; and a remove reports failure exactly when the page
\* number is out of range.
C15_FailedRemoveChangesNothing ==
    [][EngineDid("remove") =>
         /\ ~ret'[1].ok <=> ~(1 <= eop.page /\ eop.page <= Len(pages))
         /\ ~ret'[1].ok =>
               /\ pages' = pages
               /\ has_open(pages') = has_open(pages)
               /\ upid' = upid]_vars

\* a remove has failed on a store of two pages, the second one open with a command
C15_Witness ==
    /\ ret # None /\ ret[1].op = "remove" /\ ~ret[1].ok
    /\ Len(pages) = 2 /\ has_open(pages) /\ Len(pages[2].cmds) = 1

\* this step destroys pages: a successful remove, a clear
Destroyed ==
    \/ EngineDid("remove") /\ valid_page(pages, eop.page)
    \/ EngineDid("clear")
    \/ LaterMutated
    \/ CloseCleared

\* C17: only the last page can be open; new_page closes every page there is and adds
\* an open one; a step that destroys no page leaves every closed page where it is,
\* with the same commands, size and background; after a step that destroys pages
\* every page left is one of the pages there were, unchanged; and an append changes
\* nothing but the command sequence of the last page.
C17_ClosedPagesImmutable ==
    /\ [](\A i \in 1 .. Len(pages) - 1 : pages[i].closed)
    /\ [][/\ EngineDid("new_page") =>
                /\ \A i \in 1 .. Len(pages) :
                      pages'[i] = [pages[i] EXCEPT !.closed = TRUE]
                /\ ~pages'[Len(pages')].closed
          /\ ~Destroyed =>
                \A i \in 1 .. Len(pages) :
                   pages[i].closed => (i <= Len(pages') /\ pages'[i] = pages[i])
          /\ Destroyed =>
                \A j \in 1 .. Len(pages') : \E i \in 1 .. Len(pages) : pages'[j] = pages[i]
          /\ (AppendCall /\ pages' # pages) =>
                /\ has_open(pages)
                /\ pages' = [pages EXCEPT ![Len(pages)].cmds = pages'[Len(pages)].cmds]]_vars

\* a page that was closed holding a command is followed by the open page, to which a
\* draw has just appended
C17_Witness ==
    /\ ret # None /\ ret[1].op = "line"
    /\ Len(pages) = 2 /\ pages[1].closed /\ Len(pages[1].cmds) = 1
    /\ ~pages[2].closed /\ Len(pages[2].cmds) = 1

\* the positions of the engine inside httpgd_close
ClosePositions ==
    {"c_await", "c_lock", "c_unlock", "c_clear", "c_clear_cs", "c_shutdown",
     "c_shutdown_b", "c_shutdown_c", "c_delete"}

\* the engine is running a deferred task it took in awaitLater
AwaitedTask == pc_e = "cs" /\ eop.kind = "later" /\ eop.back = "c_lock"

\* C16: httpgd_close begins with the wait for the deferred task; it leaves the wait
\* either with the slot empty or by taking the pending task, and goes on to its next
\* statement (and from there to the history clear, the shutdown and the delete) only
\* when that task has run to its end on the engine's thread and a handler blocked on
\* it has been answered; once the device is destroyed no deferred task is taken
\* from the slot or run.
C16_DeferredTaskDrainedAtClose ==
    /\ [][/\ (pc_e \notin ClosePositions /\ pc_e' \in ClosePositions) =>
                (pc_e' = "c_await" \/ (AwaitedTask /\ pc_e' = "c_lock"))
          /\ (pc_e = "c_await" /\ pc_e' # "c_await") =>
                IF later # None
                THEN /\ pc_e' = "cs" /\ eop'.kind = "later"
                     /\ eop'.task = later[1] /\ eop'.back = "c_lock"
                     /\ later' = None
                ELSE pc_e' = "c_lock"
          /\ (AwaitedTask /\ pc_e' # "cs") =>
                /\ pc_e' = "c_lock"
                /\ eop.task.kind = "clear" => Len(pages') = 0
                /\ (eop.task.kind = "remove" /\ valid_page(pages, eop.task.page)) =>
                      pages' = erase_page(pages, eop.task.page)
                /\ eop.task.wait => (pc_s' = "idle" /\ resp' # None)
          /\ dev = "deleted" => ~(later # None /\ later' = None)]_vars
    /\ [](dev = "deleted" => ~(pc_e = "cs" /\ eop.kind = "later"))

\* C18: a server thread holds the exclusive section only while it copies out of the
\* store; it renders and writes its response without the section, from the copy it
\* took, whatever the store has become since; and while a handler renders the idle
\* engine can enter the store at once.
C18_NoLockWhileRendering ==
    /\ [](/\ lock = "server" <=> pc_s = "cs"
          /\ (pc_s = "respond" /\ pc_e = "idle" /\ dev = "open") =>
                ENABLED engine_call([kind |-> "new_page"]))
    /\ [][/\ (pc_s = "cs" /\ pc_s' # "cs") =>
                (lock' = "free" /\ snap' # None /\ resp' = resp)
          /\ (pc_s = "respond" /\ pc_s' # "respond") =>
                /\ lock # "server" /\ lock' = lock
                /\ (req[1].kind = "plot" /\ snap[1].page # None) =>
                      resp'[1].body = Some(render(snap[1].page[1], req[1].w, req[1].h))
          /\ (resp' # resp /\ resp' # None) => lock # "server"]_vars

\* a handler is rendering its copy of a page while the engine is inside the store,
\* starting a new page
C18_Witness ==
    /\ pc_s = "respond" /\ req[1].kind = "plot" /\ snap[1].page # None
    /\ pc_e = "cs" /\ eop.kind = "new_page" /\ lock = "engine"

\* C19: the device object is deleted only when the server has shut down with no
\* request handler left (none in flight, none inside or waiting for the exclusive
\* section, none waiting for a deferred task); once it is deleted no handler does
\* anything and the store is never touched again.
C19_NoServerAccessAfterDelete ==
    /\ [][/\ (dev = "open" /\ dev' = "deleted") =>
                (pc_s = "idle" /\ req = None /\ srv = "stopped" /\ lock = "free")
          /\ dev = "deleted" =>
                UNCHANGED <<store_vars, lock, handler_vars, later_vars>>]_vars
    /\ [](dev = "deleted" => (pc_s = "idle" /\ ~port_held(srv) /\ srv # "starting"))

(***************************************************************************)
(* SpecLive: one device, a page drawn, the server answering requests,      *)
(* device close, with the scheduling the threads have: a thread that can   *)
(* take its next step takes it, and a thread that is again and again able  *)
(* to enter the exclusive section enters it.  The engine is not bound to   *)
(* make calls or to reach a safe point, nor clients to send requests.  The *)
(* device is started without a token.                                      *)
(***************************************************************************)
LivePages == 1
LiveUpid == 2

NextLive ==
    \/ \E h \in Hosts : dev = "none" /\ httpgd_(h, 8080, "")
    \/ \E op \in {[kind |-> "new_page"]} :
          within_bounds(op, LivePages, 1, LiveUpid) /\ engine_call(op)
    \/ httpgd_new_page
    \/ safe_point
    \/ later_task
    \/ server_bind
    \/ \E r \in OpenRequests : within_bounds(r, LivePages, 1, LiveUpid) /\ srv_request(r)
    \/ srv_lock
    \/ srv_read
    \/ srv_respond
    \/ srv_schedule
    \/ CloseNext

\* the engine's thread inside a call or inside httpgd_close
EngineFair ==
    /\ WF_vars(httpgd_new_page) /\ WF_vars(later_task)
    /\ SF_vars(awaitLater) /\ SF_vars(httpgd_close_lock) /\ WF_vars(httpgd_close_unlock)
    /\ SF_vars(hist_clear_enter) /\ WF_vars(httpgd_close_hist_clear)
    /\ WF_vars(shutdown_stop_accepting) /\ WF_vars(shutdown_notify)
    /\ WF_vars(shutdown_release) /\ WF_vars(httpgd_close_delete)

\* the server's threads
ServerFair ==
    /\ WF_vars(server_bind)
    /\ SF_vars(srv_lock) /\ WF_vars(srv_read) /\ WF_vars(srv_respond)
    /\ WF_vars(srv_schedule)

SpecLive == Init /\ [][NextLive]_vars /\ EngineFair /\ ServerFair

\* C20: once the engine has entered httpgd_close the device is eventually deleted:
\* the wait for the deferred task, the acquisition of the exclusive section, the
\* history clear and the server shutdown each return, whatever the handler is doing
\* and whether or not a task is pending.
C20_CloseTerminates ==
    /\ (pc_e = "c_await") ~> (pc_e = "c_lock")
    /\ (pc_e = "c_lock") ~> (pc_e = "c_unlock")
    /\ (pc_e = "c_shutdown") ~> (pc_e = "c_delete")
    /\ (pc_e = "c_await") ~> (dev = "deleted")

\* httpgd_close has returned, the device deleted, while a handler is still blocked on
\* a deferred task that is pending in the slot
C20_Witness == dev = "deleted" /\ pc_e = "idle" /\ pc_s = "await" /\ later # None

(***************************************************************************)
(* SpecCalls: one device and no client: a few pages drawn, the engine's    *)
(* metric callbacks, and the embedding-facing functions called with every  *)
(* kind of device number.                                                  *)
(***************************************************************************)
CallPages == 2
CallCmds == 1
CallUpid == 3

NextCalls ==
    \/ \E h \in Hosts, t \in Tokens : dev = "none" /\ httpgd_(h, 8080, t)
    \/ \E op \in {[kind |-> "new_page"]} \cup TextCalls :
          within_bounds(op, CallPages, CallCmds, CallUpid) /\ engine_call(op)
    \/ httpgd_new_page
    \/ httpgd_text
    \/ \E op \in MetricCalls \cup TokenCalls : plain_call(op)
    \/ dd_metricInfo
    \/ dd_strWidth
    \/ httpgd_random_token_
    \/ \E op \in EmbedCalls : embed_invalid(op)
    \/ \E op \in EmbedCalls : embed_foreign(op)
    \/ \E op \in EmbedCalls : within_bounds(op, CallPages, CallCmds, CallUpid) /\ embed_call(op)
    \/ httpgd_state_
    \/ httpgd_svg_
    \/ httpgd_remove_
    \/ httpgd_clear_
    \/ server_bind
    \/ CloseNext

SpecCalls == Init /\ [][NextCalls]_vars

EmbedKinds == {"state", "svg", "remove", "clear"}

\* this step is an embedding-facing call that returns without entering the device:
\* the idle engine stays idle and nothing changes but the result of the call
EmbedOutside ==
    /\ pc_e = "idle" /\ pc_e' = "idle"
    /\ ret' # None /\ ret'[1].op \in EmbedKinds
    /\ UNCHANGED <<dev_vars, srv_vars, handler_vars, later_vars, eop>>

\* C12: an embedding-facing call enters the device only with the number of the live
\* device of this system; with any other number it fails with an error, and it
\* neither touches the history store nor takes the exclusive section.
C12_BadDeviceNumberFails ==
    [][/\ (pc_e = "idle" /\ pc_e' = "cs" /\ eop'.kind \in EmbedKinds) =>
             (eop'.devnum - 1 = 1 /\ dev = "open")
       /\ EmbedOutside => (~ret'[1].ok /\ UNCHANGED <<store_vars, lock>>)]_vars

\* this step ends the engine's call of kind k that took no exclusive section
PlainDid(k) == pc_e = "run" /\ eop.kind = k /\ pc_e' = "idle"

\* C13: when the font-metrics service fails, the character-metrics callback returns
\* normally with ascent, descent and width 0, the string-width callback returns 0, and
\* a text drawn returns normally and is appended to the open page, last, with width 0.
C13_MetricsFailureGivesZero ==
    [][/\ (PlainDid("metric_info") /\ eop.glyph.error # 0) =>
             /\ ret'[1].ok
             /\ ret'[1].val.ascent = 0 /\ ret'[1].val.descent = 0
             /\ ret'[1].val.width = 0
       /\ (PlainDid("strwidth") /\ eop.font.error # 0) =>
             (ret'[1].ok /\ ret'[1].val = 0)
       /\ (EngineDid("text") /\ eop.font.error # 0) =>
             /\ ret'[1].ok
             /\ has_open(pages) =>
                   /\ Len(pages') = Len(pages)
                   /\ pages'[Len(pages)].cmds =
                         Append(pages[Len(pages)].cmds, Text(eop.x, clip, 0))]_vars

\* a text drawn while the service failed is on the open page with width 0, and the
\* string-width callback has since returned 0
C13_Witness ==
    /\ ret # None /\ ret[1].op = "strwidth" /\ ret[1].val = 0
    /\ has_open(pages) /\ Len(pages[Len(pages)].cmds) = 1
    /\ pages[Len(pages)].cmds[1].kind = "text" /\ pages[Len(pages)].cmds[1].sw = 0

\* C14: random-token generation fails for every negative length and succeeds for every
\* other, with a token of exactly the length asked for (the empty token for 0).
C14_RandomTokenLength ==
    [][PlainDid("random_token") =>
         IF eop.len < 0
         THEN ~ret'[1].ok
         ELSE /\ ret'[1].ok
              /\ Len(ret'[1].val) = eop.len
              /\ eop.len = 0 => ret'[1].val = <<>>]_vars

\* a token of length 2 was generated
C14_Witness ==
    /\ ret # None /\ ret[1].op = "random_token" /\ ret[1].ok
    /\ ret[1].val = <<"b", "a">>

(***************************************************************************)
(* SpecStart: device starts on two ports, the server threads binding, a    *)
(* little drawing, device close.                                           *)
(***************************************************************************)
StartPages == 1
StartUpid == 2

NextStart ==
    \/ \E h \in Hosts, p \in Ports : httpgd_(h, p, "")
    \/ server_bind
    \/ server2_bind
    \/ \E op \in {[kind |-> "new_page"], [kind |-> "line", x |-> 50]} :
          within_bounds(op, StartPages, 1, StartUpid) /\ engine_call(op)
    \/ httpgd_new_page
    \/ httpgd_line
    \/ CloseNext

SpecStart == Init /\ [][NextStart]_vars

\* C7: while the first instance is open there is no second device on its host:port.
C7_SecondStartRejected ==
    ~(/\ dev = "open" /\ dev2 = "open"
      /\ conf2.host = conf.host /\ conf2.port = conf.port)

====
